---- MODULE Spec2Model ----
(***************************************************************************)
(* rmautoconvert.py: mirror a tree of metadata records onto a directory    *)
(* tree of folders and rendered .pdf files.  One run is                    *)
(*   read records -> build_tree -> pdf_tree (scan) -> prune -> create_pdfs *)
(* and the only state that survives a run is the mirror directory itself.  *)
(*                                                                         *)
(* Representation.  A file name is a sequence of tokens: single characters,*)
(* one token per 36 character identifier, and the token ".pdf" for that    *)
(* suffix.  A path is the sequence of file names below the mirror root, so *)
(* the mirror root (sys.argv[2]) is the empty path.  An optional value     *)
(* (Python None) is a sequence of length 0, a present value a sequence of  *)
(* length 1.  Times on disk are in milliseconds, datetime values in whole  *)
(* seconds, as lines 64 and 107 make them.                                 *)
(***************************************************************************)
EXTENDS Integers, Sequences, FiniteSets, TLC

\* ------------------------------------------------------------------ bounds

\* Runs of the program over the same metadata directory, one after the other.
MaxRuns == 2

\* Entries the mirror holds before the first run, and how deep they lie.
MaxEntries == 2
MaxDepth == 2

\* Identifiers of metadata records (file names <id>.metadata), all of the
\* canonical 8-4-4-4-12 form.
Ids == {"u1", "u2"}

\* Display names (visibleName) of the records.
Names == {<< >>, <<"f">>, <<"B", " ">>}

\* lastModified values of the records, epoch milliseconds.
LastModifiedValues == {1999}

\* Modification times of entries found in the mirror, epoch milliseconds:
\* the time utime gives an entry of such a record, and another.
MTimes == {1000, 2000}

\* ------------------------------------------------------------- values

None == << >>
Some(x) == <<x>>

DocumentType == "DocumentType"
CollectionType == "CollectionType"

\* Line 159: Element("root", "root", None); line 160: its filename is argv[2].
RootId == "root"
MirrorRoot == << >>
NoTime == None

\* The time of the run, line 126, in milliseconds: later than every
\* lastModified and every time found in the mirror.
Now == 3 * 1000

\* Content of a file the mirror held before the first run, and the bytes
\* render() returns for a document.
OldData == <<"old">>
Rendered(id) == <<"rendered", id>>

\* ------------------------------------------------------------- strings

\* str.lower() on one character.
Lower(c) == IF c = "B" THEN "b" ELSE c

\* The class [0-9a-z-_] of lines 52, 89 and 92.
SafeChars == {"f", "b", "n", "_"}

\* The identifier part of the patterns of lines 89 and 92:
\* [0-9a-f]{8}-[0-9a-f]{4}-[0-9a-f]{4}-[0-9a-f]{4}-[0-9a-f]{12}.
IsUuid(tok) == tok \in Ids

PdfSuffix == ".pdf"

sanitize_filename(fname) ==
    [i \in 1..Len(fname) |-> IF fname[i] \in SafeChars THEN fname[i] ELSE "_"]

\* Line 27: sanitize_filename(name.lower()).
SanitizedName(name) == sanitize_filename([i \in 1..Len(name) |-> Lower(name[i])])

\* Lines 129 and 138: the entry name create_pdfs builds for a node.
DocumentFileName(sanitized_name, id) == sanitized_name \o <<"_", id, PdfSuffix>>
ContainerFileName(sanitized_name, id) == sanitized_name \o <<"_", id>>

\* Line 91: fname.endswith(".pdf").
EndsWithPdf(fname) == Len(fname) > 0 /\ fname[Len(fname)] = PdfSuffix

\* Lines 89-94: the name without the suffix the chosen pattern ends in.
PatternBody(fname) ==
    IF EndsWithPdf(fname) THEN SubSeq(fname, 1, Len(fname) - 1) ELSE fname

\* The patterns with * for +: a name may start with the "_" before the
\* identifier.
MatchesEmptyName(fname) ==
    LET body == IF fname # << >> /\ fname[Len(fname)] = ".pdf"
                THEN SubSeq(fname, 1, Len(fname) - 1) ELSE fname IN
    /\ Len(body) >= 2
    /\ body[Len(body)] \in Ids
    /\ body[Len(body) - 1] = "_"
    /\ \A i \in 1..(Len(body) - 2) : body[i] \in {"f", "b", "n", "_"}

\* Lines 94-95: re.match succeeds: a non-empty run of safe characters, "_",
\* an identifier, and nothing after it.
Matches(fname) ==
    LET body == PatternBody(fname) IN
    /\ Len(body) >= 3
    /\ IsUuid(body[Len(body)])
    /\ body[Len(body) - 1] = "_"
    /\ \A i \in 1..(Len(body) - 2) : body[i] \in SafeChars

\* Lines 103-104: match.group(1) and match.group(2).
MatchName(fname) == SubSeq(PatternBody(fname), 1, Len(PatternBody(fname)) - 2)
MatchId(fname) == PatternBody(fname)[Len(PatternBody(fname))]

\* --------------------------------------------------------- file system

Parent(path) == SubSeq(path, 1, Len(path) - 1)
BaseName(path) == path[Len(path)]
join(current_path, fname) == Append(current_path, fname)

\* path lies strictly below dir.
Inside(path, dir) ==
    Len(path) > Len(dir) /\ SubSeq(path, 1, Len(dir)) = dir

Exists(fsys, path) == \E e \in fsys : e.path = path
EntryAt(fsys, path) == CHOOSE e \in fsys : e.path = path
\* The mirror root itself is a directory that is always there.
isdir(fsys, path) ==
    path = MirrorRoot \/ \E e \in fsys : e.path = path /\ e.kind = "dir"
listdir(fsys, path) == {BaseName(e.path) : e \in {x \in fsys : Parent(x.path) = path /\ Len(x.path) > 0}}

\* Adding an entry to a directory or removing one from it sets the
\* directory's modification time to the time of the call.
Touch(fsys, dir) ==
    {IF e.path = dir THEN [e EXCEPT !.mtime = Now] ELSE e : e \in fsys}

\* stat(fullname).st_mtime, line 106, as a datetime: whole milliseconds kept.
MTimeOf(fsys, path) == EntryAt(fsys, path).mtime

\* ------------------------------------------------------------- records

\* One <id>.metadata file: parent is absent (None) or a string.
MetaObjects ==
    [visibleName : Names, lastModified : LastModifiedValues,
     parent : {None} \cup {Some(p) : p \in {"", "trash"} \cup Ids},
     type : {DocumentType, CollectionType}, deleted : {FALSE}]
    \cup
    [visibleName : {<<"f">>}, lastModified : LastModifiedValues, parent : {None},
     type : {CollectionType}, deleted : {TRUE}]

\* ------------------------------------------------------------- state

VARIABLES
    records,        \* the metadata directory: id -> meta object
    fs,             \* the mirror: a set of entries [path, kind, mtime, data]
    pc,             \* where the run is: read, build, scan, prune, create, done, aborted
    error,          \* the exception that ended the run, "" when none
    run,            \* number of the current run
    all_elements,   \* the node table of lines 155-158
    root_element,   \* the synthetic root of lines 159-160
    to_delete,      \* the deletion list of line 164
    pending,        \* entries of to_delete the loop of line 169 has not reached
    stack,          \* the calls of create_pdfs in progress: [elem, todo]
    ops,            \* the file system and render calls of the current run, in order
    scanned,        \* each node's filename as pdf_tree left it
    fs0,            \* the mirror as the current run found it
    history         \* how the earlier runs ended

vars == <<records, fs, pc, error, run, all_elements, root_element, to_delete,
          pending, stack, ops, scanned, fs0, history>>

\* ------------------------------------------------------------- Element

Element(element_id, name, last_modified, parent_id, is_document) ==
    [id |-> element_id, name |-> name, sanitized_name |-> SanitizedName(name),
     filename |-> None, parent_id |-> parent_id, parent |-> None,
     last_modified |-> last_modified, is_document |-> is_document,
     children |-> {}, children_ids |-> {}]

\* Lines 58-63: the record is skipped.
Skipped(meta_obj) ==
    \/ meta_obj.deleted
    \/ meta_obj.parent # None /\ meta_obj.parent = Some("trash")

\* Line 64: int(lastModified) // 1000, a datetime of whole seconds.
LastModifiedSeconds(meta_obj) == meta_obj.lastModified \div 1000

\* Lines 55-65 for every <id>.metadata of the listing of line 154.
read_all_elements(recs) ==
    [element_id \in {i \in DOMAIN recs : ~Skipped(recs[i])} |->
        Element(element_id, recs[element_id].visibleName,
                LastModifiedSeconds(recs[element_id]), recs[element_id].parent,
                recs[element_id].type = DocumentType)]

\* Line 70: the element names a parent.
HasParentId(element) == element.parent_id # None /\ element.parent_id # Some("")

\* Line 71.
LinksToParent(element) == HasParentId(element) /\ element.parent_id # Some("trash")

\* all_elements.get(element.parent_id) for the lookup of line 72: a parent
\* that is not loaded is passed over.
MissingParentPassedOver(elems) == FALSE

\* Line 72: all_elements[element.parent_id] raises KeyError.
MissingParent(elems) ==
    \E i \in DOMAIN elems :
        LinksToParent(elems[i]) /\ elems[i].parent_id[1] \notin DOMAIN elems

\* Lines 73-74 and 78-79: the children the loop adds to node parent_id.
ChildrenOf(elems, parent_id) ==
    IF parent_id = RootId
    THEN {i \in DOMAIN elems : ~HasParentId(elems[i])}
    ELSE {i \in DOMAIN elems : LinksToParent(elems[i]) /\ elems[i].parent_id = Some(parent_id)}

\* Lines 68-79, when no KeyError is raised: the node table after the loop.
build_tree(elems) ==
    [i \in DOMAIN elems |->
        [elems[i] EXCEPT
            !.parent_id = IF HasParentId(elems[i]) THEN @ ELSE Some(RootId),
            !.parent = IF LinksToParent(elems[i]) THEN elems[i].parent_id
                       ELSE IF HasParentId(elems[i]) THEN None ELSE Some(RootId),
            !.children = ChildrenOf(elems, i),
            !.children_ids = ChildrenOf(elems, i)]]

\* Lines 159-160, then lines 76-79 for the root.
RootElement(elems) ==
    [Element(RootId, <<"root">>, NoTime, None, FALSE) EXCEPT
        !.filename = Some(MirrorRoot),
        !.children = ChildrenOf(elems, RootId),
        !.children_ids = ChildrenOf(elems, RootId)]

\* ------------------------------------------------------------- pdf_tree

\* Line 99: the entry's kind disagrees with the pattern its name matched.
KindMismatch(fsys, fullname) ==
    \/ isdir(fsys, fullname) /\ EndsWithPdf(BaseName(fullname))
    \/ ~isdir(fsys, fullname) /\ ~EndsWithPdf(BaseName(fullname))

\* Line 113 without the comparison of the names.
InvalidButForName(current_element, root, sanitized_name, dt, is_document) ==
    \/ current_element.id \notin root.children_ids
    \/ current_element.parent_id # <<root.id>>
    \/ (dt # current_element.last_modified * 1000 /\ is_document)

\* Line 113: the entry does not belong here under this name and time.
Invalid(current_element, root, sanitized_name, dt, is_document) ==
    \/ current_element.id \notin root.children_ids
    \/ current_element.parent_id # Some(root.id)
    \/ sanitized_name # current_element.sanitized_name
    \/ (dt # current_element.last_modified * 1000 /\ is_document)

\* Lines 110-117: the entry is kept: its node exists and the entry is valid.
Kept(fsys, elems, root, fullname) ==
    LET fname == BaseName(fullname)
        element_id == MatchId(fname)
    IN  /\ element_id \in DOMAIN elems
        /\ ~Invalid(elems[element_id], root, MatchName(fname),
                    MTimeOf(fsys, fullname), EndsWithPdf(fname))

\* The walk with lines 118-119 one level out: it descends into every
\* directory whose node exists, whether line 113 found it valid or not.
RECURSIVE pdf_treeDescending(_, _, _, _)
pdf_treeDescending(fsys, current_path, elems, root) ==
    LET managed == {join(current_path, fname) :
                        fname \in {n \in listdir(fsys, current_path) : Matches(n)}}
        mismatched == {f \in managed : KindMismatch(fsys, f)}
        kept == {f \in managed \ mismatched : Kept(fsys, elems, root, f)}
        below == {pdf_treeDescending(fsys, f, elems, elems[MatchId(BaseName(f))]) :
                        f \in {k \in managed \ mismatched :
                                /\ MatchId(BaseName(k)) \in DOMAIN elems
                                /\ isdir(fsys, k)}}
    IN  [kept |-> kept \cup UNION {b.kept : b \in below},
         to_delete |-> (managed \ kept) \cup UNION {b.to_delete : b \in below}]

\* Lines 82-122.  The walk reads the mirror and the static fields of the
\* nodes only, so its result is the set of entries it keeps (line 117) and
\* the set it appends to to_delete (lines 100, 115, 122).
RECURSIVE pdf_tree(_, _, _, _)
pdf_tree(fsys, current_path, elems, root) ==
    LET managed == {join(current_path, fname) :
                        fname \in {n \in listdir(fsys, current_path) : Matches(n)}}
        mismatched == {f \in managed : KindMismatch(fsys, f)}
        kept == {f \in managed \ mismatched : Kept(fsys, elems, root, f)}
        below == {pdf_tree(fsys, f, elems, elems[MatchId(BaseName(f))]) :
                        f \in {k \in kept : isdir(fsys, k)}}
    IN  [kept |-> kept \cup UNION {b.kept : b \in below},
         to_delete |-> (managed \ kept) \cup UNION {b.to_delete : b \in below}]

\* Line 117 sets filename once for each kept entry, in the order of listdir:
\* the values a node's filename can have when the walk returns.
FilenameAfterScan(kept, element_id) ==
    LET mine == {f \in kept : MatchId(BaseName(f)) = element_id}
    IN  IF mine = {} THEN {None} ELSE {Some(f) : f \in mine}

\* ------------------------------------------------------------- the run

Op(name, arg) == <<name, arg>>

Abort(exception) ==
    /\ pc' = "aborted"
    /\ error' = exception

\* Lines 154-160: the records are read, the root is made.
ReadAllElements ==
    /\ pc = "read"
    /\ all_elements' = read_all_elements(records)
    /\ root_element' = [Element(RootId, <<"root">>, NoTime, None, FALSE) EXCEPT
                            !.filename = Some(MirrorRoot)]
    /\ pc' = "build"
    /\ UNCHANGED <<records, fs, error, run, to_delete, pending, stack, ops,
                   scanned, fs0, history>>

\* Line 161: build_tree, or the KeyError of line 72 that ends the run.
BuildTree ==
    /\ pc = "build"
    /\ IF MissingParent(all_elements)
       THEN /\ Abort("KeyError")
            /\ UNCHANGED <<all_elements, root_element>>
       ELSE /\ all_elements' = build_tree(all_elements)
            /\ root_element' = RootElement(all_elements)
            /\ pc' = "scan"
            /\ UNCHANGED error
    /\ UNCHANGED <<records, fs, run, to_delete, pending, stack, ops, scanned,
                   fs0, history>>

\* Lines 164-167: pdf_tree fills to_delete and the nodes' filenames.
PdfTree ==
    /\ pc = "scan"
    /\ LET walk == pdf_tree(fs, MirrorRoot, all_elements, root_element) IN
       /\ to_delete' = walk.to_delete
       /\ pending' = walk.to_delete
       /\ \E filenames \in [DOMAIN all_elements -> {None} \cup {Some(f) : f \in walk.kept}] :
            /\ \A i \in DOMAIN all_elements :
                    filenames[i] \in FilenameAfterScan(walk.kept, i)
            /\ all_elements' = [i \in DOMAIN all_elements |->
                                    [all_elements[i] EXCEPT !.filename = filenames[i]]]
            /\ scanned' = filenames
    /\ pc' = "prune"
    /\ UNCHANGED <<records, fs, error, run, root_element, stack, ops, fs0, history>>

\* Lines 170-171: unlink(fname); a directory or a missing path raises.
PruneUnlink ==
    /\ pc = "prune"
    /\ \E fname \in pending :
        /\ EndsWithPdf(BaseName(fname))
        /\ pending' = pending \ {fname}
        /\ ops' = Append(ops, Op("unlink", fname))
        /\ IF Exists(fs, fname) /\ ~isdir(fs, fname)
           THEN /\ fs' = Touch({e \in fs : e.path # fname}, Parent(fname))
                /\ UNCHANGED <<pc, error>>
           ELSE /\ Abort(IF isdir(fs, fname) THEN "IsADirectoryError"
                                             ELSE "FileNotFoundError")
                /\ UNCHANGED fs
    /\ UNCHANGED <<records, run, all_elements, root_element, to_delete, stack,
                   scanned, fs0, history>>

\* shutil.rmtree(path, ignore_errors=True): a directory goes with all below
\* it; on a plain file or a missing path every error is swallowed and
\* nothing is removed.
rmtree(fsys, path) ==
    IF isdir(fsys, path)
    THEN Touch({e \in fsys : e.path # path /\ ~Inside(e.path, path)}, Parent(path))
    ELSE fsys

\* Lines 172-173.
PruneRmtree ==
    /\ pc = "prune"
    /\ \E fname \in pending :
        /\ ~EndsWithPdf(BaseName(fname))
        /\ pending' = pending \ {fname}
        /\ ops' = Append(ops, Op("rmtree", fname))
        /\ fs' = rmtree(fs, fname)
    /\ UNCHANGED <<records, pc, error, run, all_elements, root_element,
                   to_delete, stack, scanned, fs0, history>>

\* ---------------------------------------------------------- create_pdfs

ElementOf(element_id) ==
    IF element_id = RootId THEN root_element ELSE all_elements[element_id]

\* Calls that have visited all their children have returned.
RECURSIVE Return(_)
Return(st) ==
    IF st # << >> /\ st[Len(st)].todo = {}
    THEN Return(SubSeq(st, 1, Len(st) - 1))
    ELSE st

\* The stack after the call for a container has started its loop over the
\* children (lines 144-145 and 148-149).
Call(st, element_id) ==
    Return(Append(st, [elem |-> element_id, todo |-> ElementOf(element_id).children]))

\* The frame on top, and the stack once child has been taken from its loop.
Top == stack[Len(stack)]
Taken(child) == [stack EXCEPT ![Len(stack)].todo = @ \ {child}]

\* Line 177: create_pdfs(root_element, sys.argv[2]), once the loop of line 169
\* is through.  The root has a filename and is no document: lines 147-149.
CreateRoot ==
    /\ pc = "prune"
    /\ pending = {}
    /\ stack' = Call(<< >>, RootId)
    /\ pc' = IF stack' = << >> THEN "done" ELSE "create"
    /\ UNCHANGED <<records, fs, error, run, all_elements, root_element,
                   to_delete, pending, ops, scanned, fs0, history>>

\* current_path of the calls the frame on top makes (lines 145 and 149).
CurrentPath == ElementOf(Top.elem).filename[1]

\* utime(current_filename, (last_modified, now)): the times the other way
\* round, the modification time is the time of the run.
StampedNow(element) == Now

\* Lines 134-135 and 141-142: utime(current_filename, (now, last_modified)).
StampedMTime(element) == element.last_modified * 1000

SetFilename(child, current_filename) ==
    all_elements' = [all_elements EXCEPT ![child].filename = Some(current_filename)]

Finish(st) ==
    /\ stack' = st
    /\ pc' = IF st = << >> THEN "done" ELSE "create"
    /\ UNCHANGED error

\* Line 130: render raises; nothing is opened or written.
RenderFails ==
    /\ pc = "create"
    /\ \E child \in Top.todo :
        /\ all_elements[child].filename = None
        /\ all_elements[child].is_document
        /\ ops' = Append(ops, Op("render", child))
        /\ Abort("RenderError")
    /\ UNCHANGED <<records, fs, run, all_elements, root_element, to_delete,
                   pending, stack, scanned, fs0, history>>

\* Lines 128-136: a document without filename is rendered, written, stamped.
\* open(..., "wb") replaces a file that is there and raises on a directory
\* or below a path that is no directory.
CreateDocument ==
    /\ pc = "create"
    /\ \E child \in Top.todo :
        LET element == all_elements[child]
            current_filename ==
                join(CurrentPath, DocumentFileName(element.sanitized_name, element.id))
        IN  /\ element.filename = None
            /\ element.is_document
            /\ IF isdir(fs, current_filename) \/ ~isdir(fs, CurrentPath)
               THEN /\ ops' = ops \o <<Op("render", child), Op("open", current_filename)>>
                    /\ Abort(IF isdir(fs, current_filename) THEN "IsADirectoryError"
                                                            ELSE "NotADirectoryError")
                    /\ UNCHANGED <<fs, all_elements, stack>>
               ELSE /\ ops' = ops \o <<Op("render", child), Op("write", current_filename),
                                       Op("utime", current_filename)>>
                    /\ fs' = {e \in (IF Exists(fs, current_filename) THEN fs
                                       ELSE Touch(fs, CurrentPath)) :
                                    e.path # current_filename} \cup
                             {[path |-> current_filename, kind |-> "file",
                               mtime |-> StampedMTime(element), data |-> Rendered(child)]}
                    /\ SetFilename(child, current_filename)
                    /\ Finish(Return(Taken(child)))
    /\ UNCHANGED <<records, run, root_element, to_delete, pending, scanned,
                   fs0, history>>

\* Lines 137-145: a container without filename gets its directory, then its
\* children are visited.  mkdir raises when the path exists.
CreateDirectory ==
    /\ pc = "create"
    /\ \E child \in Top.todo :
        LET element == all_elements[child]
            current_filename ==
                join(CurrentPath, ContainerFileName(element.sanitized_name, element.id))
        IN  /\ element.filename = None
            /\ ~element.is_document
            /\ ops' = Append(ops, Op("mkdir", current_filename))
            /\ IF Exists(fs, current_filename) \/ ~isdir(fs, CurrentPath)
               THEN /\ Abort(IF Exists(fs, current_filename) THEN "FileExistsError"
                                                             ELSE "NotADirectoryError")
                    /\ UNCHANGED <<fs, all_elements, stack>>
               ELSE /\ fs' = Touch(fs, CurrentPath) \cup
                                {[path |-> current_filename, kind |-> "dir",
                                       mtime |-> StampedMTime(element), data |-> None]}
                    /\ SetFilename(child, current_filename)
                    /\ Finish(Call(Taken(child), child))
    /\ UNCHANGED <<records, run, root_element, to_delete, pending, scanned,
                   fs0, history>>

\* Lines 146-149: a node with a filename: nothing is done for a document, the
\* children of a container are visited.
VisitExisting ==
    /\ pc = "create"
    /\ \E child \in Top.todo :
        /\ all_elements[child].filename # None
        /\ Finish(IF all_elements[child].is_document
                  THEN Return(Taken(child))
                  ELSE Call(Taken(child), child))
    /\ UNCHANGED <<records, fs, run, all_elements, root_element, to_delete,
                   pending, ops, scanned, fs0, history>>

\* The program is started again over the same records and the mirror the
\* run before left.
NextRun ==
    /\ pc \in {"done", "aborted"}
    /\ run < MaxRuns
    /\ run' = run + 1
    /\ history' = Append(history, [pc |-> pc, error |-> error, ops |-> ops, fs0 |-> fs0])
    /\ pc' = "read"
    /\ error' = ""
    /\ all_elements' = << >>
    /\ root_element' = Element(RootId, <<"root">>, NoTime, None, FALSE)
    /\ to_delete' = {}
    /\ pending' = {}
    /\ stack' = << >>
    /\ ops' = << >>
    /\ scanned' = << >>
    /\ fs0' = fs
    /\ UNCHANGED <<records, fs>>

Next ==
    \/ ReadAllElements
    \/ BuildTree
    \/ PdfTree
    \/ PruneUnlink
    \/ PruneRmtree
    \/ CreateRoot
    \/ RenderFails
    \/ CreateDocument
    \/ CreateDirectory
    \/ VisitExisting
    \/ NextRun

\* ------------------------------------------------------------- Init

\* Names of the entries the mirror holds before the first run: what
\* create_pdfs would name a node, with every sanitized name and identifier,
\* and a name that has nothing of the naming convention.
SanitizedNames == {SanitizedName(n) : n \in Names}
EntryNames ==
    {ContainerFileName(t, i) : t \in SanitizedNames, i \in Ids}
    \cup {DocumentFileName(t, i) : t \in SanitizedNames, i \in Ids}
    \cup {<<"n">>}

\* The names of the naming convention: a sanitized name that is not empty,
\* "_", an identifier, and ".pdf" for a document.
ManagedNames ==
    {ContainerFileName(t, i) : t \in SanitizedNames \ {<< >>}, i \in Ids}
    \cup {DocumentFileName(t, i) : t \in SanitizedNames \ {<< >>}, i \in Ids}

\* The program reads the modification time of entries that pass line 99
\* only, and compares it for names ending in .pdf only (line 113): the time
\* varies for those, and is the other time for the rest.
EntriesAt(path) ==
    [path : {path}, kind : {"dir"}, mtime : {2000}, data : {None}]
    \cup [path : {path}, kind : {"file"},
          mtime : IF EndsWithPdf(BaseName(path)) THEN MTimes ELSE {2000},
          data : {OldData}]

\* The entries that can be added to mirror m under one of the names: in the
\* mirror root or in one of its directories, down to MaxDepth names, under
\* a name not yet taken there.
Addable(m, names) ==
    UNION {{e \in EntriesAt(join(dir, n)) : ~Exists(m, e.path)} :
            dir \in {d \in {MirrorRoot} \cup {e.path : e \in m} :
                        isdir(m, d) /\ Len(d) < MaxDepth},
            n \in names}

RECURSIVE MirrorsOf(_, _)
MirrorsOf(n, names) ==
    IF n = 0 THEN {{}}
    ELSE LET smaller == MirrorsOf(n - 1, names)
         IN  smaller \cup UNION {{m \cup {e} : e \in Addable(m, names)} : m \in smaller}

\* Entry e has the kind its name announces (line 99): a file under a name
\* ending in .pdf, a directory under a name of the naming convention that
\* does not.
WellKinded(e) ==
    BaseName(e.path) \in ManagedNames
        => ((e.kind = "file") <=> EndsWithPdf(BaseName(e.path)))

\* Up to MaxEntries entries of the announced kind under the names of the
\* naming convention, and entries under the name that has nothing of it.
Mirrors ==
    {m \in MirrorsOf(MaxEntries, ManagedNames \cup {<<"n">>}) :
        \A e \in m : WellKinded(e)}

\* The mirror is empty or holds a single entry in the mirror root, under any
\* of the names.
SmallMirrors == {{}} \cup {{e} : e \in UNION {EntriesAt(join(MirrorRoot, n)) : n \in EntryNames}}

\* Every metadata directory over Ids.
RecordSets == UNION {[S -> MetaObjects] : S \in SUBSET Ids}

\* A few metadata directories: u1 is a document in the root and alone, or a
\* folder in the root and u2 is missing or a document or a folder that names
\* u1 as its parent.
MetaObject(name, parent, type) ==
    [visibleName |-> name, lastModified |-> 1999, parent |-> parent,
     type |-> type, deleted |-> FALSE]
SampleRecordSets ==
    LET document == MetaObject(<<"f">>, Some(""), DocumentType)
        folder == MetaObject(<<"f">>, None, CollectionType)
        second == {MetaObject(<<"B", " ">>, Some("u1"), DocumentType),
                   MetaObject(<<"B", " ">>, Some("u1"), CollectionType)}
    IN  {[i \in {"u1"} |-> a] : a \in {document, folder}}
        \cup {[i \in Ids |-> IF i = "u1" THEN folder ELSE b] : b \in second}

InitRun ==
    /\ pc = "read"
    /\ error = ""
    /\ run = 1
    /\ all_elements = << >>
    /\ root_element = Element(RootId, <<"root">>, NoTime, None, FALSE)
    /\ to_delete = {}
    /\ pending = {}
    /\ stack = << >>
    /\ ops = << >>
    /\ scanned = << >>
    /\ fs0 = fs
    /\ history = << >>

\* Any metadata directory with a small mirror, or a sample metadata
\* directory with any mirror of up to MaxEntries entries.
Init ==
    /\ \/ records \in RecordSets /\ fs \in SmallMirrors
       \/ records \in SampleRecordSets /\ fs \in Mirrors
    /\ InitRun

Spec == Init /\ [][Next]_vars

\* ------------------------------------------------------------- properties

\* The records that become nodes: neither deleted nor in the trash.
Surviving == {i \in DOMAIN records : ~Skipped(records[i])}

\* What the mirror is to hold for record i.
NameOfRecord(i) ==
    IF records[i].type = DocumentType
    THEN DocumentFileName(SanitizedName(records[i].visibleName), i)
    ELSE ContainerFileName(SanitizedName(records[i].visibleName), i)
KindOfRecord(i) == IF records[i].type = DocumentType THEN "file" ELSE "dir"

\* Record i is attached to the root: it names no parent.
AtRoot(i) == records[i].parent = None \/ records[i].parent = Some("")

\* Calls of the current run.
Calls(name) == {ops[k][2] : k \in {j \in 1..Len(ops) : ops[j][1] = name}}
RenderCalls(i) == Cardinality({k \in 1..Len(ops) : ops[k] = Op("render", i)})

Completed == pc = "done"

\* The run before this one completed.
AfterCompletedRun == run > 1 /\ history[run - 1].pc = "done"

\* C1: a run that follows a completed run over the same records changes
\* nothing: its deletion list is empty, it makes no file system or render
\* call, and the mirror stays as it found it.  Stated for the prior mirror
\* state that holds nothing: the first run started from an empty mirror.
C1_Idempotence ==
    (AfterCompletedRun /\ Completed /\ history[1].fs0 = {}) =>
        to_delete = {} /\ ops = << >> /\ fs = fs0

\* C2: after one completed run over an empty mirror, every surviving record
\* has exactly one entry, of its kind and under its name, in the directory of
\* its parent's entry (in the mirror root when it names no parent), and the
\* mirror holds nothing else.
EntriesOfRecord(i) ==
    {e \in fs : BaseName(e.path) = NameOfRecord(i) /\ e.kind = KindOfRecord(i)}
C2_Convergence ==
    (Completed /\ run = 1 /\ fs0 = {}) =>
        /\ \A i \in Surviving :
            /\ Cardinality(EntriesOfRecord(i)) = 1
            /\ \A e \in EntriesOfRecord(i) :
                IF AtRoot(i)
                THEN Parent(e.path) = MirrorRoot
                ELSE \E p \in EntriesOfRecord(records[i].parent[1]) :
                        Parent(e.path) = p.path
        /\ \A e \in fs : \E i \in Surviving : e \in EntriesOfRecord(i)

\* Some surviving record names a parent that is no surviving record.
ParentIsMissing ==
    \E i \in Surviving :
        /\ records[i].parent # None
        /\ records[i].parent # Some("")
        /\ records[i].parent[1] \notin Surviving

\* C8: when a surviving record names a parent that is no surviving record,
\* the run ends in build_tree with a KeyError and the mirror is as the run
\* found it: nothing was scanned, listed for deletion, deleted or created.
C8_MissingParentAborts ==
    ParentIsMissing =>
        /\ pc \in {"read", "build", "aborted"}
        /\ pc = "aborted" => error = "KeyError"
        /\ fs = fs0
        /\ ops = << >>
        /\ to_delete = {}
        /\ scanned = << >>

C8_Witness ==
    /\ ParentIsMissing
    /\ pc = "aborted"
    /\ error = "KeyError"
    /\ fs # {}
    /\ \E i \in Surviving : records[i].parent # None /\ records[i].parent[1] \in DOMAIN records

\* The walk of the current run again: the mirror the walk saw is fs0, and
\* build_tree leaves the fields the walk reads as they are.
Walk == pdf_tree(fs0, MirrorRoot, all_elements, root_element)
Scanned == pc \in {"prune", "create", "done"} \/ (pc = "aborted" /\ scanned # << >>)

\* Entry e of the mirror carries a managed name and is of the kind the name
\* says (a file for .pdf, a directory otherwise).
Managed(e) == Matches(BaseName(e.path)) /\ ~KindMismatch(fs0, e.path)
IdOf(e) == MatchId(BaseName(e.path))

\* Record i and all records above it hang below folders, up to the root.
RECURSIVE BelowFolders(_, _)
BelowFolders(i, fuel) ==
    \/ AtRoot(i)
    \/ /\ fuel > 0
       /\ records[i].parent[1] \in Surviving
       /\ records[records[i].parent[1]].type # DocumentType
       /\ BelowFolders(records[i].parent[1], fuel - 1)

\* Entry e lies where its record belongs: in the mirror root for a record
\* without parent, else in the directory the walk resolved for the folder
\* the record names as its parent.
ValidlyPlaced(e) ==
    /\ IdOf(e) \in Surviving
    /\ BelowFolders(IdOf(e), Cardinality(Ids))
    /\ IF AtRoot(IdOf(e))
       THEN Parent(e.path) = MirrorRoot
       ELSE scanned[records[IdOf(e)].parent[1]] = Some(Parent(e.path))

\* The name part of entry e is not what the record's name sanitizes to.
Renamed(e) ==
    MatchName(BaseName(e.path)) # SanitizedName(records[IdOf(e)].visibleName)

Deleted(e) ==
    /\ e.path \in to_delete
    /\ ~Exists(fs, e.path)
    /\ e.path \in Calls("unlink") \cup Calls("rmtree")

\* The run made the entry of record i in directory dir: a directory by
\* mkdir, a file by one render and one write.
CreatedIn(i, dir) ==
    LET target == join(dir, NameOfRecord(i)) IN
    /\ \E n \in fs : n.path = target /\ n.kind = KindOfRecord(i)
    /\ IF records[i].type = DocumentType
       THEN RenderCalls(i) = 1 /\ target \in Calls("write")
       ELSE target \in Calls("mkdir")

\* The run made nothing for record i.
NothingCreatedFor(i) ==
    /\ RenderCalls(i) = 0
    /\ \A dir \in {Parent(e.path) : e \in fs0} \cup {MirrorRoot} :
            join(dir, NameOfRecord(i)) \notin Calls("write") \cup Calls("mkdir")

RenamedEntries == {e \in fs0 : Managed(e) /\ ValidlyPlaced(e) /\ Renamed(e)}

\* C3 as stated: in a completed run every validly placed entry whose record
\* now has another sanitized name is listed for deletion and removed, and
\* the entry under the new name is created beside it, a document by exactly
\* one render.
C3_RenameDetection ==
    Completed =>
        \A e \in RenamedEntries :
            Deleted(e) /\ CreatedIn(IdOf(e), Parent(e.path))

\* C3 as amended: the entry under the old name is listed and removed; the
\* entry under the new name is created beside it, a document by exactly one
\* render, unless the walk kept another entry for the record, and then the
\* run creates and renders nothing for the record.
C3_RenameDetectionAmended ==
    Completed =>
        \A e \in RenamedEntries :
            /\ Deleted(e)
            /\ IF scanned[IdOf(e)] = None
               THEN CreatedIn(IdOf(e), Parent(e.path))
               ELSE NothingCreatedFor(IdOf(e)) /\ all_elements[IdOf(e)].filename = scanned[IdOf(e)]

\* A completed run that replaced a renamed document inside a folder, and a
\* renamed folder.
C3_Witness ==
    /\ Completed
    /\ \E e \in RenamedEntries :
        /\ scanned[IdOf(e)] = None
        /\ records[IdOf(e)].type = DocumentType
        /\ Len(e.path) = 2
        /\ RenderCalls(IdOf(e)) = 1

\* The loop of line 169 is through.
Pruned == (pc = "prune" /\ pending = {}) \/ pc \in {"create", "done"}

\* Entry e lies in a directory the walk listed: the mirror root or the
\* directory it resolved for a folder.
InListedDirectory(e) ==
    \/ Parent(e.path) = MirrorRoot
    \/ \E i \in DOMAIN scanned :
            /\ scanned[i] = Some(Parent(e.path))
            /\ records[i].type # DocumentType
            /\ isdir(fs0, Parent(e.path))

\* Entry e is as the run found it: there, of the same kind and content.
Untouched(e) ==
    \E n \in fs : n.path = e.path /\ n.kind = e.kind /\ n.data = e.data

\* C4: once the prune loop is through, every entry of a listed directory
\* whose name matches a pattern and whose identifier is no node is on the
\* deletion list and gone, and the entries the walk kept are not on the list
\* and are as the run found them.
C4_OrphanPruning ==
    Pruned =>
        /\ \A e \in fs0 :
            (Matches(BaseName(e.path)) /\ InListedDirectory(e)
                /\ IdOf(e) \notin DOMAIN all_elements)
            => e.path \in to_delete /\ ~Exists(fs, e.path)
        /\ \A e \in fs0 :
            e.path \in Walk.kept => e.path \notin to_delete /\ Untouched(e)

\* A document file of a document record, under the record's name and where
\* the record belongs, with another time than the record's.
StaleDocuments ==
    {e \in fs0 :
        /\ Managed(e) /\ e.kind = "file"
        /\ ValidlyPlaced(e) /\ ~Renamed(e)
        /\ records[IdOf(e)].type = DocumentType
        /\ e.mtime # LastModifiedSeconds(records[IdOf(e)]) * 1000}

\* A directory of a folder record, under the record's name and where the
\* record belongs.
PlacedFolders ==
    {e \in fs0 :
        /\ Managed(e) /\ e.kind = "dir"
        /\ ValidlyPlaced(e) /\ ~Renamed(e)
        /\ records[IdOf(e)].type # DocumentType}

\* C5: in a completed run every stale document is deleted and rendered
\* again under the same path with the record's time; and no run lists a
\* placed folder for deletion or makes it again, whatever its time.
C5_TimestampRerender ==
    /\ Completed =>
        \A e \in StaleDocuments :
            /\ e.path \in to_delete
            /\ e.path \in Calls("unlink")
            /\ CreatedIn(IdOf(e), Parent(e.path))
            /\ \E n \in fs : n.path = e.path /\ n.mtime = LastModifiedSeconds(records[IdOf(e)]) * 1000
    /\ Scanned =>
        \A e \in PlacedFolders :
            /\ e.path \notin to_delete
            /\ e.path \notin Calls("mkdir") \cup Calls("rmtree") \cup Calls("unlink")
            /\ Exists(fs, e.path)

\* The names create_pdfs gives an entry of identifier i.
EmbedsId(fname, i) ==
    \E t \in SanitizedNames :
        fname = ContainerFileName(t, i) \/ fname = DocumentFileName(t, i)

\* C6: a record that is deleted or in the trash is never a node, no run
\* creates an entry with its identifier, and after a completed run the mirror
\* holds no entry of the record's name and kind, as an earlier run made it.
C6_TrashExclusion ==
    \A i \in DOMAIN records \ Surviving :
        /\ i \notin DOMAIN all_elements
        /\ \A path \in Calls("mkdir") \cup Calls("write") : ~EmbedsId(BaseName(path), i)
        /\ Completed => EntriesOfRecord(i) = {}

\* Entry e carries no managed name: it matches neither pattern.
Foreign(e) == BaseName(e.path) \notin ManagedNames

\* Paths the walk listed: what it kept and what it put on the deletion list.
Visited == Walk.kept \cup Walk.to_delete

\* C7 as stated: an entry anywhere in the mirror whose name matches neither
\* pattern is never on the deletion list, never a node's resolved path,
\* never listed by the walk nor anything below it, and stays as it was found.
C7_ForeignTolerance ==
    \A e \in {x \in fs0 : Foreign(x)} :
        /\ e \in fs
        /\ Scanned =>
            /\ e.path \notin to_delete
            /\ \A p \in Visited : ~Inside(p, e.path)
            /\ \A i \in DOMAIN all_elements : all_elements[i].filename # Some(e.path)

\* C7 as amended: such an entry is never on the deletion list, never the
\* resolved path the walk records for a node, never listed below; and it
\* stays as it was found unless it lies inside a directory that is on the
\* deletion list, which rmtree removes with all it holds, or create_pdfs
\* writes a document under exactly its path.
C7_ForeignToleranceAmended ==
    \A e \in {x \in fs0 : Foreign(x)} :
        /\ \/ e \in fs
           \/ \E d \in to_delete : Inside(e.path, d) /\ d \in Calls("rmtree")
           \/ e.path \in Calls("write")
        /\ Scanned =>
            /\ e.path \notin to_delete
            /\ \A p \in Visited : ~Inside(p, e.path)
            /\ \A i \in DOMAIN scanned : scanned[i] # Some(e.path)

\* A completed run that deleted a stale entry and left alone the foreign
\* file beside it and the foreign directory with what is in it.
C7_Witness ==
    /\ Completed
    /\ to_delete # {}
    /\ fs # fs0
    /\ \E e \in fs0 :
        /\ Foreign(e)
        /\ e \in fs
        /\ \E d \in fs0 : Parent(d.path) = Parent(e.path) /\ d.path \in to_delete

\* The document nodes of the run.
DocumentNodes == {i \in DOMAIN all_elements : all_elements[i].is_document}

\* C9: a run calls render at most once for a document node; a completed run
\* has called it for exactly the document nodes the walk left without
\* resolved path; and create_pdfs neither renders nor writes nor stamps a
\* document node the walk resolved.
C9_RenderOnceWhenNeeded ==
    /\ \A i \in DocumentNodes : RenderCalls(i) <= 1
    /\ Completed =>
        \A i \in DocumentNodes : (RenderCalls(i) = 1) <=> (scanned[i] = None)
    /\ Scanned =>
        \A i \in DocumentNodes :
            scanned[i] # None =>
                /\ RenderCalls(i) = 0
                /\ scanned[i][1] \notin Calls("write") \cup Calls("utime")

\* The run before this one ended in a failing render; the document is the
\* last render call logged in that run.
AfterRenderFailure == run > 1 /\ history[run - 1].error = "RenderError"
RenderFailed == pc = "aborted" /\ error = "RenderError"
FailedDocument(log) == log[Len(log)][2]

\* The path create_pdfs builds for node i below its parent's resolved path.
TargetOf(i) ==
    join(ElementOf(all_elements[i].parent_id[1]).filename[1],
         IF all_elements[i].is_document
         THEN DocumentFileName(all_elements[i].sanitized_name, i)
         ELSE ContainerFileName(all_elements[i].sanitized_name, i))

\* C10, for a first run over an empty mirror: when render fails the run
\* ends there and no file is at the document's path; and the next run, with
\* no failing render, completes and has the document at its path.
C10_RenderFailure ==
    /\ (RenderFailed /\ run = 1 /\ fs0 = {}) =>
            ~Exists(fs, TargetOf(FailedDocument(ops)))
    /\ (AfterRenderFailure /\ run = 2 /\ history[1].fs0 = {}
            /\ pc \in {"done", "aborted"} /\ ~RenderFailed) =>
            /\ Completed
            /\ \E e \in fs : /\ e.path = TargetOf(FailedDocument(history[1].ops))
                             /\ e.kind = "file"
                             /\ e.data = Rendered(FailedDocument(history[1].ops))

\* The prune loop has just ended: every path of the list was handed to
\* unlink or rmtree and create_pdfs has not started.
PruneLoopEnded == pc = "prune" /\ pending = {}

\* The prune loop raised: the run ended in the unlink of line 171.
PruneRaised ==
    /\ pc = "aborted"
    /\ ops # << >>
    /\ ops[Len(ops)][1] = "unlink"

\* C11: the prune loop raises no error, and when it has ended no path of the
\* deletion list exists; so it is for a directory under a name ending in
\* .pdf and for a plain file under a container name.
C11_PrunerCompleteness ==
    /\ ~PruneRaised
    /\ PruneLoopEnded => \A p \in to_delete : ~Exists(fs, p)

\* The directories the run has resolved: the mirror root and the directory
\* that is the filename of a node.
ResolvedDirectories ==
    {MirrorRoot} \cup
    {all_elements[i].filename[1] :
        i \in {j \in DOMAIN all_elements :
                /\ all_elements[j].filename # None
                /\ isdir(fs, all_elements[j].filename[1])}}

\* The node that owns a resolved directory.
OwnerOf(dir) ==
    IF dir = MirrorRoot THEN RootId
    ELSE CHOOSE i \in DOMAIN all_elements : all_elements[i].filename = Some(dir)

\* The entries under a managed name in a resolved directory.
ManagedEntries ==
    {e \in fs : Matches(BaseName(e.path)) /\ Parent(e.path) \in ResolvedDirectories}

\* C12: after a completed run, whatever the mirror was before, every entry
\* under a managed name in the mirror root or in a node's resolved directory
\* carries the identifier of a node whose parent is the owner of that
\* directory, and no two such entries carry the same identifier.
C12_NoDuplicates ==
    Completed =>
        /\ \A e \in ManagedEntries :
            /\ IdOf(e) \in DOMAIN all_elements
            /\ all_elements[IdOf(e)].parent_id = Some(OwnerOf(Parent(e.path)))
        /\ \A e1, e2 \in ManagedEntries : IdOf(e1) = IdOf(e2) => e1 = e2

\* build_tree has returned without error.
Built == pc \in {"scan", "prune", "create", "done"}

\* The nodes reached from the root by following children in at most fuel
\* steps: the nodes create_pdfs visits.
RECURSIVE ReachableFrom(_, _)
ReachableFrom(nodes, fuel) ==
    IF fuel = 0 THEN nodes
    ELSE ReachableFrom(nodes \cup UNION {ElementOf(n).children_ids : n \in nodes},
                       fuel - 1)
ReachableFromRoot == ReachableFrom({RootId}, Cardinality(Ids)) \ {RootId}

\* The nodes that hold node i in their children.
ParentsOf(i) ==
    {p \in DOMAIN all_elements \cup {RootId} : i \in ElementOf(p).children_ids}

\* Node i lies on a cycle of parent links.
RECURSIVE Above(_, _)
Above(i, fuel) ==
    IF fuel = 0 \/ all_elements[i].parent = None \/ all_elements[i].parent = Some(RootId)
    THEN {}
    ELSE {all_elements[i].parent[1]} \cup Above(all_elements[i].parent[1], fuel - 1)
OnCycle(i) == i \in Above(i, Cardinality(Ids))

\* C13: when build_tree has returned, every node has one parent, is among
\* the children of that parent and of no other node, lies on no cycle of
\* parent links, and is reached from the root by following children.
C13_TreeInvariant ==
    Built =>
        \A i \in DOMAIN all_elements :
            /\ all_elements[i].parent # None
            /\ ParentsOf(i) = {all_elements[i].parent[1]}
            /\ ~OnCycle(i)
            /\ i \in ReachableFromRoot

\* The entry name create_pdfs builds for a node (lines 129 and 138).
EntryNameOf(element) ==
    IF element.is_document
    THEN DocumentFileName(element.sanitized_name, element.id)
    ELSE ContainerFileName(element.sanitized_name, element.id)

\* C14: the entry name create_pdfs builds for a node of the node table
\* matches pdf_tree's pattern of the node's kind, and the match gives back
\* the node's sanitized name and identifier.
C14_NameRoundTrip ==
    \A i \in DOMAIN all_elements :
        LET fname == EntryNameOf(all_elements[i]) IN
        /\ Matches(fname)
        /\ EndsWithPdf(fname) = all_elements[i].is_document
        /\ MatchName(fname) = all_elements[i].sanitized_name
        /\ MatchId(fname) = all_elements[i].id

\* The parent of node i has a resolved path and a directory is there.
ParentDirectoryReady(i) ==
    LET parent == ElementOf(all_elements[i].parent_id[1])
    IN  parent.filename # None /\ isdir(fs, parent.filename[1])

\* The calls create_pdfs has made for nodes in this run: k is the place in
\* the log, i the node.
MadeFor(k, i) ==
    \/ ops[k] = Op("render", i)
    \/ /\ ops[k][1] \in {"mkdir", "write"}
       /\ BaseName(ops[k][2]) = EntryNameOf(all_elements[i])

\* C15: create_pdfs calls mkdir, render or write for a node only when the
\* node's parent has a resolved path and its directory exists, and makes the
\* entry in that directory; and pdf_tree lists a directory other than the
\* mirror root only when it has kept that entry for a node.
C15_ParentBeforeChild ==
    /\ \A k \in 1..Len(ops) : \A i \in DOMAIN all_elements :
            MadeFor(k, i) =>
                /\ ParentDirectoryReady(i)
                /\ ops[k][1] \in {"mkdir", "write"} =>
                    Some(Parent(ops[k][2])) = ElementOf(all_elements[i].parent_id[1]).filename
    /\ Scanned =>
            \A p \in Visited : Parent(p) = MirrorRoot \/ Parent(p) \in Walk.kept

\* The node whose resolved path is path.
NodesAt(path) == {i \in DOMAIN all_elements : all_elements[i].filename = Some(path)}

\* The document files the run before this one wrote.
WrittenBefore == {history[run - 1].ops[k][2] :
                    k \in {j \in 1..Len(history[run - 1].ops) :
                            history[run - 1].ops[j][1] = "write"}}

\* C16: at the end of a completed run every document file the run wrote has
\* the modification time of its node's last_modified, in whole seconds; and
\* the walk of the run that follows, over the same records, does not put
\* such a file on the deletion list.
C16_TimestampStamping ==
    /\ Completed =>
        \A path \in Calls("write") :
            /\ NodesAt(path) # {}
            /\ \A i \in NodesAt(path) :
                /\ Exists(fs, path)
                /\ MTimeOf(fs, path) = (records[i].lastModified \div 1000) * 1000
    /\ (AfterCompletedRun /\ Scanned) =>
        \A path \in WrittenBefore : path \notin to_delete

\* The run replaced a stale document, and the walk of the next run has kept
\* the file it wrote.
C16_Witness ==
    /\ AfterCompletedRun
    /\ Scanned
    /\ \E path \in WrittenBefore :
        /\ path \in Walk.kept
        /\ \E e \in history[1].fs0 : e.path = path /\ e.mtime # MTimeOf(fs0, path)

\* C17: once the walk has returned, and when the run has completed, the
\* resolved path of a document node is a regular file under a name ending
\* in .pdf and the resolved path of a container node is a directory under a
\* name without that suffix; and every entry the walk kept is of its node's
\* kind.
C17_KindAgreement ==
    (pc \in {"prune", "create", "done"}) =>
        /\ \A i \in DOMAIN all_elements :
            all_elements[i].filename # None =>
                LET path == all_elements[i].filename[1] IN
                IF all_elements[i].is_document
                THEN EndsWithPdf(BaseName(path)) /\ ~isdir(fs, path)
                ELSE ~EndsWithPdf(BaseName(path)) /\ isdir(fs, path)
        /\ \A p \in Walk.kept :
            EndsWithPdf(BaseName(p)) = all_elements[MatchId(BaseName(p))].is_document

\* C18: when the walk has returned, no path of the deletion list lies inside
\* another one, and no entry the walk kept, so no node's resolved path, is
\* on the list or inside a path of the list; hence every such entry is
\* still there, as the run found it, while the prune loop runs and when
\* create_pdfs starts.
C18_PruneKeepsKept ==
    Scanned =>
        /\ \A p, q \in to_delete : ~Inside(p, q)
        /\ \A k \in Walk.kept \cup {scanned[i][1] : i \in {j \in DOMAIN scanned : scanned[j] # None}} :
            /\ k \notin to_delete
            /\ \A d \in to_delete : ~Inside(k, d)
            /\ \E e \in fs0 : e.path = k /\ Untouched(e)

\* The prune loop has removed an entry from inside a directory the walk
\* resolved for a node, and the directory is still there.
C18_Witness ==
    /\ PruneLoopEnded
    /\ \E i \in DOMAIN scanned :
        /\ scanned[i] # None
        /\ \E d \in to_delete : Parent(d) = scanned[i][1] /\ ~Exists(fs, d)
        /\ Exists(fs, scanned[i][1])

====
